---- MODULE Spec2Model ----
(***************************************************************************)
(* Offline-first synchronisation engine of the PWA demo: the persisted     *)
(* pending-operation queue and conflict list (SyncService), one sync pass  *)
(* (SyncService.performSync) with its suspension points, the guarded entry *)
(* point of the sync hook (useBackgroundSync.performActualSync) with the   *)
(* React closure it reads, and the local-mutation fallbacks of useTodos.   *)
(*                                                                         *)
(* Abstractions: Date.now() is the logical clock Now; operation ids are    *)
(* fresh integers; a todo field that is absent is "absent" (cached,        *)
(* syncStatus), 0 (lastModified) or "" (title); the id and timestamp of a  *)
(* conflict record are never read by the code and are left out.            *)
(***************************************************************************)
EXTENDS Integers, Sequences, FiniteSets, TLC

\* ---------------------------------------------------------------- bounds
MaxPasses == 3      \* sync passes started in one behaviour
MaxInFlight == 2    \* passes that can be in flight together
MaxOps == 2         \* addPendingOperation calls in one behaviour
MaxRestarts == 1    \* process restarts in one behaviour
MaxTs == 2          \* largest lastModified timestamp of a reconcile input
MaxId == 2          \* entity ids of a reconcile input are 1..MaxId
MaxLate == 1        \* write requests given up by the client and still on their way
MaxExecutions == 3  \* calls of useAsync's execute in one run
TimerPeriod == 2    \* clock ticks in one period of the sync interval

\* ------------------------------------------------------ program constants
RetryCeiling == 3   \* operation.retryCount < 3
LocalIdBase == 100  \* id: Date.now() of an item created offline, above every server id
Retries == 3           \* ApiService's config.retries, passed to withRetry as maxRetries
RetryDelay == 1000     \* ApiService's config.retryDelay, in ms
BackoffMultiplier == 2 \* withRetry's default backoffMultiplier

VARIABLES
  pending,            \* localStorage 'pwa-pending-sync-operations'
  conflicts,          \* localStorage 'pwa-sync-conflicts'
  lastSync,           \* localStorage 'pwa-last-sync-timestamp' (0 = not set)
  storedTodos,        \* localStorage 'pwa-todos'
  server,             \* the remote collection
  nextId,             \* the remote's next id
  apiCache,           \* ApiService's AsyncCache entry of GET /todos
  todos,              \* React state: App's todos
  isSyncing,          \* React state: useBackgroundSync's isSyncing
  hasRunInitialSync,  \* React state: useBackgroundSync's hasRunInitialSync
  isServerConnected,  \* React state: useServerHealth's isConnected ("null" before the first check)
  rendered,           \* the values the handlers of the last commit closed over
  online,             \* navigator.onLine
  pass,               \* the passes, by slot: their position and locals
  passCount,          \* passes started so far
  opCount,            \* operation ids generated so far
  restarts,           \* process restarts so far
  acked,              \* history: ids of the operations whose push the remote acknowledged
  late,               \* the write requests the client gave up waiting for, still on their way
  rin,                \* one call on bounded inputs: the inputs (the snapshots of
                      \* reconcileData, a key and its stored content, a request)
  rout,               \* one call on bounded inputs: its progress and its outcome
  timer               \* the sync interval: the ticks since it was set or last fired
                      \* (elapsed), and whether its callback has just run (called)

storage == <<pending, conflicts, lastSync, storedTodos>>
remote == <<server, nextId, apiCache>>
react == <<todos, isSyncing, hasRunInitialSync, isServerConnected, rendered, online>>
engine == <<pass, passCount, opCount, restarts, acked, late>>
recon == <<rin, rout>>
vars == <<storage, remote, react, engine, recon, timer>>

\* ------------------------------------------------------------- data model
Todo(id, title, completed, cached, lastModified, syncStatus) ==
  [id |-> id, title |-> title, completed |-> completed, cached |-> cached,
   lastModified |-> lastModified, syncStatus |-> syncStatus]

\* { ...todo, syncStatus: s }
WithStatus(todo, s) == [todo EXCEPT !.syncStatus = s]

\* JavaScript truthiness of todo.cached and of todo.lastModified
Truthy(cached) == cached = "true"
HasTs(lastModified) == lastModified # 0

\* Date.now(): strictly increasing over the events that read it
Now == 1 + passCount + opCount

Range(s) == {s[i] : i \in 1..Len(s)}
Ids(s) == {s[i].id : i \in 1..Len(s)}

\* list.map(t => ({ ...t, syncStatus: s }))
AllWithStatus(list, s) == [i \in 1..Len(list) |-> WithStatus(list[i], s)]

RECURSIVE Flatten(_)
Flatten(ss) == IF ss = <<>> THEN <<>> ELSE Head(ss) \o Flatten(Tail(ss))

\* new Map(list.map(t => [t.id, t])).get(id): the last item with that id, 0 if none
LastIndexOf(list, id) ==
  LET hits == {i \in 1..Len(list) : list[i].id = id}
  IN IF hits = {} THEN 0 ELSE CHOOSE i \in hits : \A j \in hits : j <= i

Conflict(localTodo, serverTodo) ==
  [entityId |-> serverTodo.id, localData |-> localTodo, serverData |-> serverTodo]

\* fault: the newer local item is kept but no conflict record is pushed
ReconcileOneNoRecord(localTodos, serverTodo) ==
  LET i == LastIndexOf(localTodos, serverTodo.id)
      localTodo == localTodos[i]
  IN IF i = 0
     THEN [item |-> WithStatus(serverTodo, "synced"), conflicts |-> <<>>]
     ELSE IF Truthy(localTodo.cached) /\ HasTs(localTodo.lastModified)
             /\ HasTs(serverTodo.lastModified)
     THEN IF localTodo.lastModified > serverTodo.lastModified
          THEN [item |-> WithStatus(localTodo, "conflict"), conflicts |-> <<>>]
          ELSE [item |-> WithStatus(serverTodo, "synced"), conflicts |-> <<>>]
     ELSE IF Truthy(localTodo.cached)
     THEN [item |-> WithStatus(localTodo, "pending"), conflicts |-> <<>>]
     ELSE [item |-> WithStatus(serverTodo, "synced"), conflicts |-> <<>>]

\* fault: the timestamps are compared the wrong way round
ReconcileOneReversed(localTodos, serverTodo) ==
  LET i == LastIndexOf(localTodos, serverTodo.id)
      localTodo == localTodos[i]
  IN IF i = 0
     THEN [item |-> WithStatus(serverTodo, "synced"), conflicts |-> <<>>]
     ELSE IF Truthy(localTodo.cached) /\ HasTs(localTodo.lastModified)
             /\ HasTs(serverTodo.lastModified)
     THEN IF localTodo.lastModified < serverTodo.lastModified
          THEN [item |-> WithStatus(localTodo, "conflict"),
                conflicts |-> <<Conflict(localTodo, serverTodo)>>]
          ELSE [item |-> WithStatus(serverTodo, "synced"), conflicts |-> <<>>]
     ELSE IF Truthy(localTodo.cached)
     THEN [item |-> WithStatus(localTodo, "pending"), conflicts |-> <<>>]
     ELSE [item |-> WithStatus(serverTodo, "synced"), conflicts |-> <<>>]

\* fault: on equal timestamps the local item wins
ReconcileOneTieLocal(localTodos, serverTodo) ==
  LET i == LastIndexOf(localTodos, serverTodo.id)
      localTodo == localTodos[i]
  IN IF i = 0
     THEN [item |-> WithStatus(serverTodo, "synced"), conflicts |-> <<>>]
     ELSE IF Truthy(localTodo.cached) /\ HasTs(localTodo.lastModified)
             /\ HasTs(serverTodo.lastModified)
     THEN IF localTodo.lastModified >= serverTodo.lastModified
          THEN [item |-> WithStatus(localTodo, "conflict"),
                conflicts |-> <<Conflict(localTodo, serverTodo)>>]
          ELSE [item |-> WithStatus(serverTodo, "synced"), conflicts |-> <<>>]
     ELSE IF Truthy(localTodo.cached)
     THEN [item |-> WithStatus(localTodo, "pending"), conflicts |-> <<>>]
     ELSE [item |-> WithStatus(serverTodo, "synced"), conflicts |-> <<>>]

\* fault: an item new from the remote is marked 'pending'
ReconcileOneNewMarkedPending(localTodos, serverTodo) ==
  LET i == LastIndexOf(localTodos, serverTodo.id)
      localTodo == localTodos[i]
  IN IF i = 0
     THEN [item |-> WithStatus(serverTodo, "pending"), conflicts |-> <<>>]
     ELSE IF Truthy(localTodo.cached) /\ HasTs(localTodo.lastModified)
             /\ HasTs(serverTodo.lastModified)
     THEN IF localTodo.lastModified > serverTodo.lastModified
          THEN [item |-> WithStatus(localTodo, "conflict"),
                conflicts |-> <<Conflict(localTodo, serverTodo)>>]
          ELSE [item |-> WithStatus(serverTodo, "synced"), conflicts |-> <<>>]
     ELSE IF Truthy(localTodo.cached)
     THEN [item |-> WithStatus(localTodo, "pending"), conflicts |-> <<>>]
     ELSE [item |-> WithStatus(serverTodo, "synced"), conflicts |-> <<>>]

\* fault: the timestamps are compared whether the local item is cached or not
ReconcileOneIgnoresCached(localTodos, serverTodo) ==
  LET i == LastIndexOf(localTodos, serverTodo.id)
      localTodo == localTodos[i]
  IN IF i = 0
     THEN [item |-> WithStatus(serverTodo, "synced"), conflicts |-> <<>>]
     ELSE IF HasTs(localTodo.lastModified)
             /\ HasTs(serverTodo.lastModified)
     THEN IF localTodo.lastModified > serverTodo.lastModified
          THEN [item |-> WithStatus(localTodo, "conflict"),
                conflicts |-> <<Conflict(localTodo, serverTodo)>>]
          ELSE [item |-> WithStatus(serverTodo, "synced"), conflicts |-> <<>>]
     ELSE IF Truthy(localTodo.cached)
     THEN [item |-> WithStatus(localTodo, "pending"), conflicts |-> <<>>]
     ELSE [item |-> WithStatus(serverTodo, "synced"), conflicts |-> <<>>]

\* fault: a cached item without comparable timestamps gives way to the remote one
ReconcileOneNoTsAdoptsRemote(localTodos, serverTodo) ==
  LET i == LastIndexOf(localTodos, serverTodo.id)
      localTodo == localTodos[i]
  IN IF i = 0
     THEN [item |-> WithStatus(serverTodo, "synced"), conflicts |-> <<>>]
     ELSE IF Truthy(localTodo.cached) /\ HasTs(localTodo.lastModified)
             /\ HasTs(serverTodo.lastModified)
     THEN IF localTodo.lastModified > serverTodo.lastModified
          THEN [item |-> WithStatus(localTodo, "conflict"),
                conflicts |-> <<Conflict(localTodo, serverTodo)>>]
          ELSE [item |-> WithStatus(serverTodo, "synced"), conflicts |-> <<>>]
     ELSE IF Truthy(localTodo.cached)
     THEN [item |-> WithStatus(serverTodo, "synced"), conflicts |-> <<>>]
     ELSE [item |-> WithStatus(serverTodo, "synced"), conflicts |-> <<>>]

\* one iteration of reconcileData's loop over serverTodos
ReconcileOne(localTodos, serverTodo) ==
  LET i == LastIndexOf(localTodos, serverTodo.id)
      localTodo == localTodos[i]
  IN IF i = 0
     THEN [item |-> WithStatus(serverTodo, "synced"), conflicts |-> <<>>]
     ELSE IF Truthy(localTodo.cached) /\ HasTs(localTodo.lastModified)
             /\ HasTs(serverTodo.lastModified)
     THEN IF localTodo.lastModified > serverTodo.lastModified
          THEN [item |-> WithStatus(localTodo, "conflict"),
                conflicts |-> <<Conflict(localTodo, serverTodo)>>]
          ELSE [item |-> WithStatus(serverTodo, "synced"), conflicts |-> <<>>]
     ELSE IF Truthy(localTodo.cached)
     THEN [item |-> WithStatus(localTodo, "pending"), conflicts |-> <<>>]
     ELSE [item |-> WithStatus(serverTodo, "synced"), conflicts |-> <<>>]

\* fault: the second loop, over the local-only items, is missing
reconcileDataDropsLocalOnly(localTodos, serverTodos) ==
  LET each == [i \in 1..Len(serverTodos) |-> ReconcileOne(localTodos, serverTodos[i])]
  IN [reconciled |-> [i \in 1..Len(serverTodos) |-> each[i].item],
      conflicts |-> Flatten([i \in 1..Len(serverTodos) |-> each[i].conflicts])]

reconcileData(localTodos, serverTodos) ==
  LET each == [i \in 1..Len(serverTodos) |-> ReconcileOne(localTodos, serverTodos[i])]
      fromServer == [i \in 1..Len(serverTodos) |-> each[i].item]
      localOnly == SelectSeq(localTodos, LAMBDA t : t.id \notin Ids(serverTodos))
  IN [reconciled |-> fromServer \o AllWithStatus(localOnly, "pending"),
      conflicts |-> Flatten([i \in 1..Len(serverTodos) |-> each[i].conflicts])]

\* ------------------------------------------------------ the durable queue
Op(id, type, entityId, data, retryCount) ==
  [id |-> id, type |-> type, entityId |-> entityId, data |-> data,
   retryCount |-> retryCount]

Data(title, completed) == [title |-> title, completed |-> completed]

\* fault: the filter drops every entry of the entity, whatever its type
addPendingOperationDropsEntity(operations, id, type, entityId, data) ==
  Append(SelectSeq(operations, LAMBDA op : op.entityId # entityId),
         Op(id, type, entityId, data, 0))

\* fault: the entry of the same entity and type is not filtered out
addPendingOperationKeepsOld(operations, id, type, entityId, data) ==
  Append(operations, Op(id, type, entityId, data, 0))

\* fault: the new entry is put at the head of the queue
addPendingOperationAtHead(operations, id, type, entityId, data) ==
  <<Op(id, type, entityId, data, 0)>>
    \o SelectSeq(operations, LAMBDA op : ~(op.entityId = entityId /\ op.type = type))

\* the queue addPendingOperation saves
addPendingOperation(operations, id, type, entityId, data) ==
  Append(SelectSeq(operations, LAMBDA op : ~(op.entityId = entityId /\ op.type = type)),
         Op(id, type, entityId, data, 0))

\* fault: the filter keeps the completed operations
removeCompletedOperationsKeepsAll(operations, completedIds) == operations

\* the queue removeCompletedOperations saves
removeCompletedOperations(operations, completedIds) ==
  SelectSeq(operations, LAMBDA op : op.id \notin Range(completedIds))

\* lines 231-237 of performSync: what the queue holds when the pass ends
QueueAfterPass(stored, syncedIds, failedOps) ==
  LET remaining == removeCompletedOperations(stored, syncedIds)
  IN IF Len(failedOps) > 0 THEN failedOps ELSE remaining

\* ------------------------------------------------------------- the remote
ServerTodo(id, title, completed, lastModified) ==
  Todo(id, title, completed, "absent", lastModified, "absent")

IndexOf(list, id) ==
  LET hits == {i \in 1..Len(list) : list[i].id = id}
  IN IF hits = {} THEN 0 ELSE CHOOSE i \in hits : \A j \in hits : i <= j

\* does the remote answer 2xx to the write of this operation
Accepts(srv, op) ==
  CASE op.type = "create" -> op.data.title # ""
    [] op.type = "update" -> IndexOf(srv, op.entityId) # 0
    [] op.type = "delete" -> IndexOf(srv, op.entityId) # 0

\* the collection after the remote has handled the write
Applied(srv, nid, op) ==
  CASE op.type = "create" -> <<ServerTodo(nid, op.data.title, FALSE, 0)>> \o srv
    [] op.type = "update" ->
         LET i == IndexOf(srv, op.entityId)
             t1 == IF op.data.title # "" THEN [srv[i] EXCEPT !.title = op.data.title]
                   ELSE srv[i]
             t2 == IF op.data.completed # "absent"
                   THEN [t1 EXCEPT !.completed = (op.data.completed = "true")] ELSE t1
         IN [srv EXCEPT ![i] = t2]
    [] op.type = "delete" -> SelectSeq(srv, LAMBDA t : t.id # op.entityId)

\* --------------------------------------------------------------- one pass
NoResult ==
  [success |-> FALSE, syncedOperations |-> <<>>, failedOperations |-> <<>>,
   conflicts |-> <<>>, fetched |-> FALSE, fetchedData |-> <<>>, error |-> ""]

\* a pass: its position (pc), its ordinal while it runs (n), performSync's
\* parameter and locals, and what the
\* remote did to it (history): fetchError, the fetch was rejected; drained, the
\* queue as the pass read it; acks and fails, the ids of the operations whose
\* write the remote acknowledged, and whose write failed; sent, the ids of the
\* operations whose pushOperation has returned, in the order of the returns
IdlePass ==
  [pc |-> "idle", n |-> 0, localTodos |-> <<>>, fromCache |-> FALSE,
   cachedData |-> <<>>, pendingOps |-> <<>>, idx |-> 0, syncedIds |-> <<>>,
   failedOps |-> <<>>, result |-> NoResult,
   fetchError |-> FALSE, drained |-> <<>>, acks |-> {}, fails |-> {},
   sent |-> <<>>]

\* a pass that has returned: its SyncResult and its history are left
Returned(q, result) ==
  [IdlePass EXCEPT !.pc = "done", !.result = result, !.fetchError = q.fetchError,
                   !.drained = q.drained, !.acks = q.acks, !.fails = q.fails,
                   !.sent = q.sent]

\* fault: the catch block does not record the error
CatchResultNoError(result, message) == result

\* performSync's catch block
CatchResult(result, message) == [result EXCEPT !.error = message]

Passes == 1..MaxInFlight
InFlight(p) == pass[p].pc \in {"fetch", "push"}

\* fault: a failed operation is kept for the next pass with its counter as it was
AfterPushNoBump(q, success) ==
  LET op == q.pendingOps[q.idx]
  IN IF success
     THEN [q EXCEPT !.idx = @ + 1,
                    !.syncedIds = Append(@, op.id),
                    !.result.syncedOperations = Append(@, op)]
     ELSE [q EXCEPT !.idx = @ + 1,
                    !.failedOps = IF op.retryCount + 1 < RetryCeiling
                                  THEN Append(@, op) ELSE @,
                    !.result.failedOperations = Append(@, op)]

\* fault: a failed push ends the loop
AfterPushStopsAtFailure(q, success) ==
  LET op == q.pendingOps[q.idx]
      bumped == [op EXCEPT !.retryCount = @ + 1]
  IN IF success
     THEN [q EXCEPT !.idx = @ + 1,
                    !.syncedIds = Append(@, op.id),
                    !.result.syncedOperations = Append(@, op)]
     ELSE [q EXCEPT !.idx = Len(q.pendingOps) + 1,
                    !.pendingOps[q.idx] = bumped,
                    !.failedOps = IF bumped.retryCount < RetryCeiling
                                  THEN Append(@, bumped) ELSE @,
                    !.result.failedOperations = Append(@, bumped)]

\* fault: a failed operation is kept for the next pass whatever its counter
AfterPushNoCeiling(q, success) ==
  LET op == q.pendingOps[q.idx]
      bumped == [op EXCEPT !.retryCount = @ + 1]
  IN IF success
     THEN [q EXCEPT !.idx = @ + 1,
                    !.syncedIds = Append(@, op.id),
                    !.result.syncedOperations = Append(@, op)]
     ELSE [q EXCEPT !.idx = @ + 1,
                    !.pendingOps[q.idx] = bumped,
                    !.failedOps = Append(@, bumped),
                    !.result.failedOperations = Append(@, bumped)]

\* the body of performSync's loop once pushOperation has returned `success`
AfterPush(q, success) ==
  LET op == q.pendingOps[q.idx]
      bumped == [op EXCEPT !.retryCount = @ + 1]
  IN IF success
     THEN [q EXCEPT !.idx = @ + 1,
                    !.syncedIds = Append(@, op.id),
                    !.result.syncedOperations = Append(@, op)]
     ELSE [q EXCEPT !.idx = @ + 1,
                    !.pendingOps[q.idx] = bumped,
                    !.failedOps = IF bumped.retryCount < RetryCeiling
                                  THEN Append(@, bumped) ELSE @,
                    !.result.failedOperations = Append(@, bumped)]

\* fault: the reconciled items are handed over with the status reconcileData gave them
AsSyncedKeepsStatus(list) == list

\* performActualSync maps the reconciled items before onTodosUpdate
AsSynced(list) == AllWithStatus(list, "synced")

\* fault: a pass with a failed push reports success = false
FinishFailsOnPushFailure(p, q) ==
  /\ pending' = QueueAfterPass(pending, q.syncedIds, q.failedOps)
  /\ lastSync' = Now
  /\ pass' = [pass EXCEPT ![p] =
                Returned(q, [q.result EXCEPT
                               !.success = (q.result.failedOperations = <<>>)])]
  /\ todos' = IF q.result.fetched THEN AsSynced(q.result.fetchedData) ELSE todos
  /\ isSyncing' = FALSE

\* the end of performSync (lines 231-243) and performActualSync's continuation
Finish(p, q) ==
  /\ pending' = QueueAfterPass(pending, q.syncedIds, q.failedOps)
  /\ lastSync' = Now
  /\ pass' = [pass EXCEPT ![p] = Returned(q, [q.result EXCEPT !.success = TRUE])]
  /\ todos' = IF q.result.fetched THEN AsSynced(q.result.fetchedData) ELSE todos
  /\ isSyncing' = FALSE

\* after a push: the next push is issued, or the pass ends
Advance(p, q) ==
  IF q.idx > Len(q.pendingOps) THEN Finish(p, q)
  ELSE /\ pass' = [pass EXCEPT ![p] = q]
       /\ UNCHANGED <<pending, lastSync, todos, isSyncing>>

\* fault: the new conflicts are saved in place of the stored ones
AfterFetchOverwrites(p, serverTodos) ==
  LET rec == reconcileData(pass[p].localTodos, serverTodos)
      q == [pass[p] EXCEPT !.pc = "push", !.pendingOps = pending, !.idx = 1,
                           !.drained = pending, !.localTodos = <<>>,
                           !.cachedData = <<>>,
                           !.result.conflicts = rec.conflicts,
                           !.result.fetched = TRUE,
                           !.result.fetchedData = rec.reconciled]
  IN /\ conflicts' = IF Len(rec.conflicts) > 0 THEN rec.conflicts ELSE conflicts
     /\ Advance(p, q)

\* performSync from the fetched snapshot to the first push (lines 196-217)
AfterFetch(p, serverTodos) ==
  LET rec == reconcileData(pass[p].localTodos, serverTodos)
      q == [pass[p] EXCEPT !.pc = "push", !.pendingOps = pending, !.idx = 1,
                           !.drained = pending, !.localTodos = <<>>,
                           !.cachedData = <<>>,
                           !.result.conflicts = rec.conflicts,
                           !.result.fetched = TRUE,
                           !.result.fetchedData = rec.reconciled]
  IN /\ conflicts' = IF Len(rec.conflicts) > 0 THEN conflicts \o rec.conflicts
                     ELSE conflicts
     /\ Advance(p, q)

\* the remote snapshot arrives (from the network, or from the cache hit)
FetchOk(p) ==
  /\ pass[p].pc = "fetch"
  /\ IF pass[p].fromCache
     THEN AfterFetch(p, pass[p].cachedData) /\ UNCHANGED apiCache
     ELSE AfterFetch(p, server) /\ apiCache' = [valid |-> TRUE, data |-> server]
  /\ UNCHANGED <<storedTodos, server, nextId, hasRunInitialSync, isServerConnected,
                 rendered, online, passCount, opCount, restarts, acked, late, recon, timer>>

\* todoApi.getTodos() rejects: performSync's catch, performActualSync's finally
FetchFail(p) ==
  /\ pass[p].pc = "fetch"
  /\ ~pass[p].fromCache
  /\ pass' = [pass EXCEPT ![p] =
                Returned([pass[p] EXCEPT !.fetchError = TRUE],
                         CatchResult(pass[p].result, "Failed to fetch server data"))]
  /\ isSyncing' = FALSE
  /\ UNCHANGED <<storage, remote, todos, hasRunInitialSync, isServerConnected,
                 rendered, online, passCount, opCount, restarts, acked, late, recon, timer>>

\* the remote acknowledges the write of pendingOps[idx]
PushOk(p) ==
  /\ pass[p].pc = "push"
  /\ LET op == pass[p].pendingOps[pass[p].idx]
     IN /\ Accepts(server, op)
        /\ server' = Applied(server, nextId, op)
        /\ nextId' = IF op.type = "create" THEN nextId + 1 ELSE nextId
        /\ acked' = acked \cup {op.id}
  /\ apiCache' = [valid |-> FALSE, data |-> <<>>]
  /\ Advance(p, AfterPush([pass[p] EXCEPT
                             !.acks = @ \cup {pass[p].pendingOps[pass[p].idx].id},
                             !.sent = Append(@, pass[p].pendingOps[pass[p].idx].id)],
                          TRUE))
  /\ UNCHANGED <<conflicts, storedTodos, hasRunInitialSync, isServerConnected,
                 rendered, online, passCount, opCount, restarts, late, recon, timer>>

\* the write fails (transport failure, or the remote rejects it)
PushFail(p) ==
  /\ pass[p].pc = "push"
  /\ Advance(p, AfterPush([pass[p] EXCEPT
                             !.fails = @ \cup {pass[p].pendingOps[pass[p].idx].id},
                             !.sent = Append(@, pass[p].pendingOps[pass[p].idx].id)],
                          FALSE))
  /\ UNCHANGED <<conflicts, storedTodos, remote, hasRunInitialSync, isServerConnected,
                 rendered, online, passCount, opCount, restarts, acked, late, recon, timer>>

\* every attempt of the write ran into withTimeout's 5 s: pushOperation returns
\* false, and the fetch, which nothing aborts, is still on its way to the remote
PushTimeout(p) ==
  /\ pass[p].pc = "push"
  /\ Cardinality(late) < MaxLate
  /\ late' = late \cup {[n |-> pass[p].n, op |-> pass[p].pendingOps[pass[p].idx]]}
  /\ Advance(p, AfterPush([pass[p] EXCEPT
                             !.fails = @ \cup {pass[p].pendingOps[pass[p].idx].id},
                             !.sent = Append(@, pass[p].pendingOps[pass[p].idx].id)],
                          FALSE))
  /\ UNCHANGED <<conflicts, storedTodos, remote, hasRunInitialSync, isServerConnected,
                 rendered, online, passCount, opCount, restarts, acked, recon, timer>>

\* a request the client gave up reaches the remote, which handles it; nobody
\* reads the answer
LateArrive ==
  \E r \in late :
    /\ late' = late \ {r}
    /\ IF Accepts(server, r.op)
       THEN /\ server' = Applied(server, nextId, r.op)
            /\ nextId' = IF r.op.type = "create" THEN nextId + 1 ELSE nextId
       ELSE UNCHANGED <<server, nextId>>
    /\ UNCHANGED <<storage, apiCache, react, pass, passCount, opCount, restarts,
                   acked, recon, timer>>
\* ---------------------------------------------------------- the sync hook
\* the interval as the effect sets it
NoTimer == [elapsed |-> 0, called |-> FALSE]

\* what a commit hands to the callbacks it creates
View ==
  [todos |-> todos, isSyncing |-> isSyncing, hasRunInitialSync |-> hasRunInitialSync,
   isServerConnected |-> isServerConnected]

\* if (isSyncing) return: the flag is the one the callback closed over
Guarded(view) == view.isSyncing

\* performActualSync past the guard, up to the await of the fetch
StartPass(kind, view) ==
  /\ passCount < MaxPasses
  /\ \E p \in Passes :
       /\ ~InFlight(p)
       /\ \A q \in Passes : q < p => InFlight(q)
       /\ pass' = [pass EXCEPT ![p] =
                     [IdlePass EXCEPT !.pc = "fetch",
                                      !.n = passCount + 1,
                                      !.localTodos = view.todos,
                                      !.fromCache = apiCache.valid,
                                      !.cachedData = apiCache.data]]
  /\ isSyncing' = TRUE
  /\ passCount' = passCount + 1

performActualSync(kind, view) ==
  IF Guarded(view) THEN UNCHANGED <<isSyncing, pass, passCount>>
  ELSE StartPass(kind, view)

\* window 'online': useOnlineStatus and handleOnline
OnlineEvent ==
  /\ ~online
  /\ online' = TRUE
  /\ performActualSync("online", rendered)
  /\ UNCHANGED <<storage, remote, todos, hasRunInitialSync, isServerConnected,
                 rendered, opCount, restarts, acked, late, recon, timer>>

OfflineEvent ==
  /\ online
  /\ online' = FALSE
  /\ UNCHANGED <<storage, remote, todos, isSyncing, hasRunInitialSync,
                 isServerConnected, rendered, engine, recon, timer>>

\* the 30 s interval fires (a call the guard turns away changes nothing)
TimerTick ==
  /\ online
  /\ ~Guarded(rendered)
  /\ StartPass("timer", rendered)
  /\ UNCHANGED <<storage, remote, todos, hasRunInitialSync, isServerConnected,
                 rendered, online, opCount, restarts, acked, late, recon, timer>>

\* handleForcedSync -> performSync(true, ...) -> performActualSync(true)
ManualSync ==
  /\ ~Guarded(rendered)
  /\ StartPass("manual", rendered)
  /\ UNCHANGED <<storage, remote, todos, hasRunInitialSync, isServerConnected,
                 rendered, online, opCount, restarts, acked, late, recon, timer>>

\* useServerHealth.checkConnection resolves
HealthCheck(connected) ==
  /\ isServerConnected # connected
  /\ isServerConnected' = connected
  /\ UNCHANGED <<storage, remote, todos, isSyncing, hasRunInitialSync, rendered,
                 online, engine, recon, timer>>

\* React commits the pending state updates: the callbacks are re-created over the
\* current state, the effects re-subscribe them, and the initial-sync effect runs;
\* a new performActualSync (isSyncing or todos changed) makes the interval effect
\* clear its interval and set a new one
Render ==
  /\ rendered # View
  /\ rendered' = View
  /\ IF ~hasRunInitialSync /\ online /\ isServerConnected = "true"
     THEN hasRunInitialSync' = TRUE /\ performActualSync("initial", View)
     ELSE UNCHANGED <<hasRunInitialSync, isSyncing, pass, passCount>>
  /\ timer' = IF rendered.isSyncing # isSyncing \/ rendered.todos # todos
              THEN [timer EXCEPT !.elapsed = 0] ELSE timer
  /\ UNCHANGED <<storage, remote, todos, isServerConnected, online, opCount,
                 restarts, acked, late, recon>>

\* time passes: the interval set by the last run of the effect counts on
ClockTick ==
  /\ timer.elapsed < TimerPeriod
  /\ timer' = [elapsed |-> timer.elapsed + 1, called |-> FALSE]
  /\ UNCHANGED <<storage, remote, react, engine, recon>>

\* the interval has run its 30 s: its callback calls performActualSync if
\* navigator.onLine, and the interval starts over
TimerFire ==
  /\ timer.elapsed = TimerPeriod
  /\ timer' = [elapsed |-> 0, called |-> online]
  /\ IF online THEN performActualSync("timer", rendered)
     ELSE UNCHANGED <<isSyncing, pass, passCount>>
  /\ UNCHANGED <<storage, remote, todos, hasRunInitialSync, isServerConnected,
                 rendered, online, opCount, restarts, acked, late, recon>>

\* SyncService.clearSyncData, through useBackgroundSync.clearSyncData (a call
\* that finds the three records already removed changes nothing)
clearSyncData ==
  /\ <<pending, conflicts, lastSync>> # <<(<<>>), (<<>>), 0>>
  /\ pending' = <<>>
  /\ conflicts' = <<>>
  /\ lastSync' = 0
  /\ UNCHANGED <<storedTodos, remote, react, engine, recon, timer>>

\* the cache entry outlives its ttl
CacheExpire ==
  /\ apiCache.valid
  /\ apiCache' = [valid |-> FALSE, data |-> <<>>]
  /\ UNCHANGED <<storage, server, nextId, react, engine, recon, timer>>

\* ------------------------------------------- useTodos: the local fallbacks
Titles == {"a"}

\* addTodo, offline or after the POST failed (lines 101-119)
AddTodoFallback(title) ==
  /\ opCount < MaxOps
  /\ LET newTodoItem == Todo(LocalIdBase + Now, title, FALSE, "true", Now, "pending")
         updatedTodos == <<newTodoItem>> \o rendered.todos
     IN /\ todos' = updatedTodos
        /\ storedTodos' = updatedTodos
        /\ pending' = addPendingOperation(pending, opCount + 1, "create",
                                          newTodoItem.id, Data(title, "false"))
  /\ opCount' = opCount + 1
  /\ UNCHANGED <<conflicts, lastSync, remote, isSyncing, hasRunInitialSync,
                 isServerConnected, rendered, online, pass, passCount, restarts,
                 acked, late, recon, timer>>

\* toggleTodo when offline or on a cached item: no remote write is tried, the
\* item is updated locally and the update is queued (lines 132-137, 162-188)
ToggleTodoLocal(id) ==
  /\ id \in Ids(rendered.todos)
  /\ LET todo == rendered.todos[IndexOf(rendered.todos, id)]
     IN ~online \/ Truthy(todo.cached)
  /\ LET todo == rendered.todos[IndexOf(rendered.todos, id)]
         newCompleted == ~todo.completed
         updatedTodos ==
           [i \in 1..Len(rendered.todos) |->
              LET t == rendered.todos[i]
              IN IF t.id = id
                 THEN [t EXCEPT !.completed = newCompleted, !.cached = "true",
                                !.lastModified = Now, !.syncStatus = "pending"]
                 ELSE t]
     IN /\ todos' = updatedTodos
        /\ storedTodos' = updatedTodos
        /\ opCount < MaxOps
        /\ pending' = addPendingOperation(
                         pending, opCount + 1, "update", id,
                         Data("", IF newCompleted THEN "true" ELSE "false"))
        /\ opCount' = opCount + 1
  /\ UNCHANGED <<conflicts, lastSync, remote, isSyncing, hasRunInitialSync,
                 isServerConnected, rendered, online, pass, passCount, restarts,
                 acked, late, recon, timer>>

RECURSIVE EnqueueDeletes(_, _, _)
\* todos.forEach(todo => addPendingOperation('delete', todo.id, {}))
EnqueueDeletes(operations, list, lastId) ==
  IF list = <<>> THEN operations
  ELSE EnqueueDeletes(
         addPendingOperation(operations, lastId + 1, "delete", Head(list).id,
                             Data("", "absent")),
         Tail(list), lastId + 1)

\* clearTodos, offline or after the DELETE failed (lines 211-218)
ClearTodosFallback ==
  /\ rendered.todos # <<>>
  /\ opCount + Len(rendered.todos) <= MaxOps
  /\ todos' = <<>>
  /\ storedTodos' = <<>>
  /\ pending' = EnqueueDeletes(pending, rendered.todos, opCount)
  /\ opCount' = opCount + Len(rendered.todos)
  /\ UNCHANGED <<conflicts, lastSync, remote, isSyncing, hasRunInitialSync,
                 isServerConnected, rendered, online, pass, passCount, restarts,
                 acked, late, recon, timer>>

\* ------------------------------------ useTodos: the writes tried online
\* addTodo online, the POST answers 2xx (lines 78-95): the remote's item is put
\* first, uncached; the request is a raw fetch, ApiService's cache is not told
AddTodoOnline(title) ==
  /\ online
  /\ nextId <= MaxId
  /\ LET op == Op(0, "create", 0, Data(title, "false"), 0)
         newTodoItem == [ServerTodo(nextId, title, FALSE, 0) EXCEPT !.cached = "false"]
         updatedTodos == <<newTodoItem>> \o rendered.todos
     IN /\ Accepts(server, op)
        /\ server' = Applied(server, nextId, op)
        /\ nextId' = nextId + 1
        /\ todos' = updatedTodos
        /\ storedTodos' = updatedTodos
  /\ UNCHANGED <<pending, conflicts, lastSync, apiCache, isSyncing, hasRunInitialSync,
                 isServerConnected, rendered, online, engine, recon, timer>>

\* toggleTodo online on an uncached item, the PUT answers 2xx (lines 136-157):
\* the remote's item replaces the local one, uncached
ToggleTodoOnline(id) ==
  /\ online
  /\ id \in Ids(rendered.todos)
  /\ LET todo == rendered.todos[IndexOf(rendered.todos, id)]
         newCompleted == ~todo.completed
         op == Op(0, "update", id, Data("", IF newCompleted THEN "true" ELSE "false"), 0)
     IN /\ ~Truthy(todo.cached)
        /\ Accepts(server, op)
        /\ server' = Applied(server, nextId, op)
        /\ LET updatedTodo == server'[IndexOf(server', id)]
               updatedTodos ==
                 [i \in 1..Len(rendered.todos) |->
                    IF rendered.todos[i].id = id
                    THEN [updatedTodo EXCEPT !.cached = "false"]
                    ELSE rendered.todos[i]]
           IN /\ todos' = updatedTodos
              /\ storedTodos' = updatedTodos
  /\ UNCHANGED <<pending, conflicts, lastSync, nextId, apiCache, isSyncing,
                 hasRunInitialSync, isServerConnected, rendered, online, engine, recon, timer>>

\* toggleTodo online on an uncached item, the PUT throws or answers an error
\* (lines 136-188): the item is updated locally, and `!isOnline || todo.cached`
\* is false, so nothing is queued
ToggleTodoWriteFails(id) ==
  /\ online
  /\ id \in Ids(rendered.todos)
  /\ LET todo == rendered.todos[IndexOf(rendered.todos, id)]
         newCompleted == ~todo.completed
         updatedTodos ==
           [i \in 1..Len(rendered.todos) |->
              LET t == rendered.todos[i]
              IN IF t.id = id
                 THEN [t EXCEPT !.completed = newCompleted, !.cached = "true",
                                !.lastModified = Now, !.syncStatus = "pending"]
                 ELSE t]
     IN /\ ~Truthy(todo.cached)
        /\ todos' = updatedTodos
        /\ storedTodos' = updatedTodos
  /\ UNCHANGED <<pending, conflicts, lastSync, remote, isSyncing, hasRunInitialSync,
                 isServerConnected, rendered, online, engine, recon, timer>>

\* clearTodos online, the DELETE answers 2xx (lines 194-206)
ClearTodosOnline ==
  /\ online
  /\ rendered.todos # <<>>
  /\ server' = <<>>
  /\ todos' = <<>>
  /\ storedTodos' = <<>>
  /\ UNCHANGED <<pending, conflicts, lastSync, nextId, apiCache, isSyncing,
                 hasRunInitialSync, isServerConnected, rendered, online, engine, recon, timer>>

\* ------------------------------------------------------- process restart
\* the page is reloaded: localStorage and the remote survive, the passes in
\* flight are gone, App mounts again and useTodos loads the cached todos
Restart ==
  /\ restarts < MaxRestarts
  /\ restarts' = restarts + 1
  /\ pass' = [p \in Passes |->
               IF InFlight(p) THEN IdlePass ELSE pass[p]]
  /\ todos' = [i \in 1..Len(storedTodos) |-> [storedTodos[i] EXCEPT !.cached = "true"]]
  /\ isSyncing' = FALSE
  /\ hasRunInitialSync' = FALSE
  /\ isServerConnected' = "null"
  /\ rendered' = [todos |-> todos', isSyncing |-> FALSE, hasRunInitialSync |-> FALSE,
                  isServerConnected |-> "null"]
  /\ apiCache' = [valid |-> FALSE, data |-> <<>>]
  /\ timer' = NoTimer
  /\ UNCHANGED <<storage, server, nextId, online, passCount, opCount, acked, late, recon>>

\* ------------------------------------------------------------ the system
\* the remote collection at start: empty, or one item; the README server stores
\* no lastModified (0), another remote behind the same API may carry one (1)
InitServers ==
  {<<>>} \cup {<<ServerTodo(1, "a", FALSE, ts)>> : ts \in 0..1}

NoRecon == [local |-> <<>>, remote |-> <<>>]
NoFirst == [reconciled |-> <<>>, stored |-> <<>>]
NoOut == [phase |-> "off", reconciled |-> <<>>, conflicts |-> <<>>, first |-> NoFirst]

Init ==
  /\ pending = <<>>
  /\ conflicts = <<>>
  /\ lastSync = 0
  /\ storedTodos = <<>>
  /\ server \in InitServers
  /\ nextId = 2
  /\ apiCache = [valid |-> FALSE, data |-> <<>>]
  /\ todos = <<>>
  /\ isSyncing = FALSE
  /\ hasRunInitialSync = FALSE
  /\ isServerConnected = "null"
  /\ rendered = [todos |-> <<>>, isSyncing |-> FALSE, hasRunInitialSync |-> FALSE,
                 isServerConnected |-> "null"]
  /\ online \in BOOLEAN
  /\ pass = [p \in Passes |-> IdlePass]
  /\ passCount = 0
  /\ opCount = 0
  /\ restarts = 0
  /\ acked = {}
  /\ late = {}
  /\ timer = NoTimer
  /\ rin = NoRecon
  /\ rout = NoOut

\* React has committed every state update: the callbacks see the current state
Settled == rendered = View

\* the engine when React commits before the next event is handled
Next ==
  \/ Render
  \/ Settled /\ \E p \in Passes : FetchOk(p)
  \/ Settled /\ \E p \in Passes : FetchFail(p)
  \/ Settled /\ \E p \in Passes : PushOk(p)
  \/ Settled /\ \E p \in Passes : PushFail(p)
  \/ Settled /\ TimerTick
  \/ Settled /\ ManualSync
  \/ Settled /\ \E title \in Titles : AddTodoFallback(title)
  \/ Settled /\ \E id \in Ids(rendered.todos) : ToggleTodoLocal(id)
  \/ Settled /\ ClearTodosFallback

Spec == Init /\ [][Next]_vars

\* the same, with a reload of the page at any moment
NextRestart ==
  \/ Next
  \/ Settled /\ Restart

SpecRestart == Init /\ [][NextRestart]_vars

\* passes requested by hand over local toggles of the remote's items, and a consumer
\* that clears the sync data at any moment
NextClear ==
  \/ Render
  \/ Settled /\ \E p \in Passes : FetchOk(p)
  \/ Settled /\ \E p \in Passes : FetchFail(p)
  \/ Settled /\ \E p \in Passes : PushOk(p)
  \/ Settled /\ \E p \in Passes : PushFail(p)
  \/ Settled /\ ManualSync
  \/ Settled /\ \E id \in Ids(rendered.todos) : ToggleTodoLocal(id)
  \/ Settled /\ clearSyncData

SpecClear == Init /\ [][NextClear]_vars

\* passes requested by hand over local additions, with writes that time out
NextTimeout ==
  \/ Render
  \/ Settled /\ \E p \in Passes : FetchOk(p)
  \/ Settled /\ \E p \in Passes : PushOk(p)
  \/ Settled /\ \E p \in Passes : PushFail(p)
  \/ Settled /\ \E p \in Passes : PushTimeout(p)
  \/ Settled /\ LateArrive
  \/ Settled /\ ManualSync
  \/ Settled /\ \E title \in Titles : AddTodoFallback(title)

SpecTimeout == Init /\ [][NextTimeout]_vars
\* passes requested by hand over the additions and toggles of useTodos that try
\* the remote first, and the toggles that do not
NextTodos ==
  \/ Render
  \/ Settled /\ \E p \in Passes : FetchOk(p)
  \/ Settled /\ \E p \in Passes : PushOk(p)
  \/ Settled /\ ManualSync
  \/ Settled /\ \E title \in Titles : AddTodoOnline(title)
  \/ Settled /\ \E id \in Ids(rendered.todos) : ToggleTodoOnline(id)
  \/ Settled /\ \E id \in Ids(rendered.todos) : ToggleTodoWriteFails(id)
  \/ Settled /\ \E id \in Ids(rendered.todos) : ToggleTodoLocal(id)

SpecTodos == Init /\ [][NextTodos]_vars

\* the interval against the clock: the timer is the only trigger, the list is
\* changed by writes that reach the remote, React commits before the next event
NextTimer ==
  \/ Render
  \/ Settled /\ ClockTick
  \/ Settled /\ TimerFire
  \/ Settled /\ \E p \in Passes : FetchOk(p)
  \/ Settled /\ \E p \in Passes : FetchFail(p)
  \/ Settled /\ \E title \in Titles : AddTodoOnline(title)
  \/ Settled /\ \E id \in Ids(rendered.todos) : ToggleTodoOnline(id)

SpecTimer == Init /\ [][NextTimer]_vars

\* the event loop runs what is due: React commits a pending update and a fetch
\* settles; time passes and a due interval callback runs however often other
\* events come in between (strong fairness)
FairTimer ==
  /\ SpecTimer
  /\ WF_vars(Render)
  /\ SF_vars(Settled /\ ClockTick)
  /\ SF_vars(Settled /\ TimerFire)
  /\ WF_vars(Settled /\ \E p \in Passes : FetchOk(p) \/ FetchFail(p))

\* items added offline and passes on the timer, every fetch and every write
\* succeeding
NextConverge ==
  \/ Render
  \/ Settled /\ \E p \in Passes : FetchOk(p)
  \/ Settled /\ \E p \in Passes : PushOk(p)
  \/ Settled /\ TimerTick
  \/ Settled /\ \E title \in Titles : AddTodoFallback(title)

SpecConverge == Init /\ [][NextConverge]_vars

\* ------------------------------------------- useAsync (lib/async-utils.ts)
\* what asyncFunction can resolve with, and the messages it can reject with
AsyncResults == {"r1", "r2"}
AsyncErrors == {"e1"}

\* useState's initial AsyncState; "null" stands for null
InitialAsyncState ==
  [data |-> "null", loading |-> FALSE, error |-> "null", lastUpdated |-> 0]

\* a mounted hook before any call: executionRef.current is 0; `runs` holds the
\* calls of execute in the order they started, `settled` those that completed
NoAsync ==
  [state |-> InitialAsyncState, executionRef |-> 0, runs |-> <<>>, settled |-> <<>>]

\* new Date() at an event of the hook
AsyncNow == 1 + Len(rout.runs) + Len(rout.settled)

\* fault: a completion updates the state whichever execution it belongs to
IsLatestAlways(currentExecution, executionRef) == TRUE

\* currentExecution === executionRef.current
IsLatest(currentExecution, executionRef) == currentExecution = executionRef

\* an idle app with a component that uses useAsync; rin tells whether an
\* asyncFunction was passed
AsyncInit ==
  /\ pending = <<>>
  /\ conflicts = <<>>
  /\ lastSync = 0
  /\ storedTodos = <<>>
  /\ server = <<>>
  /\ nextId = 2
  /\ apiCache = [valid |-> FALSE, data |-> <<>>]
  /\ todos = <<>>
  /\ isSyncing = FALSE
  /\ hasRunInitialSync = FALSE
  /\ isServerConnected = "null"
  /\ rendered = [todos |-> <<>>, isSyncing |-> FALSE, hasRunInitialSync |-> FALSE,
                 isServerConnected |-> "null"]
  /\ online = TRUE
  /\ pass = [p \in Passes |-> IdlePass]
  /\ passCount = 0
  /\ opCount = 0
  /\ restarts = 0
  /\ acked = {}
  /\ late = {}
  /\ timer = NoTimer
  /\ rin \in [asyncFunction : BOOLEAN]
  /\ rout = NoAsync

\* execute up to its await (lines 38-46): without asyncFunction it returns null
execute ==
  /\ rin.asyncFunction
  /\ Len(rout.runs) < MaxExecutions
  /\ LET currentExecution == rout.executionRef + 1
     IN rout' = [rout EXCEPT
                   !.executionRef = currentExecution,
                   !.runs = Append(@, [currentExecution |-> currentExecution,
                                       pc |-> "await"]),
                   !.state = [@ EXCEPT !.loading = TRUE, !.error = "null"]]
  /\ UNCHANGED <<storage, remote, react, engine, rin, timer>>

\* asyncFunction of the k-th call resolves with `result` (lines 46-58)
ExecuteResolves(k, result) ==
  /\ rout.runs[k].pc = "await"
  /\ rout' = [rout EXCEPT
                !.runs[k].pc = "done",
                !.settled = Append(@, [execution |-> k, outcome |-> "resolved"]),
                !.state = IF IsLatest(rout.runs[k].currentExecution, rout.executionRef)
                          THEN [data |-> result, loading |-> FALSE, error |-> "null",
                                lastUpdated |-> AsyncNow]
                          ELSE @]
  /\ UNCHANGED <<storage, remote, react, engine, rin, timer>>

\* asyncFunction of the k-th call rejects with `message` (lines 59-69)
ExecuteRejects(k, message) ==
  /\ rout.runs[k].pc = "await"
  /\ rout' = [rout EXCEPT
                !.runs[k].pc = "done",
                !.settled = Append(@, [execution |-> k, outcome |-> "rejected"]),
                !.state = IF IsLatest(rout.runs[k].currentExecution, rout.executionRef)
                          THEN [@ EXCEPT !.loading = FALSE, !.error = message]
                          ELSE @]
  /\ UNCHANGED <<storage, remote, react, engine, rin, timer>>

NextAsync ==
  \/ execute
  \/ \E k \in 1..Len(rout.runs), result \in AsyncResults : ExecuteResolves(k, result)
  \/ \E k \in 1..Len(rout.runs), message \in AsyncErrors : ExecuteRejects(k, message)

SpecAsync == AsyncInit /\ [][NextAsync]_vars

\* the sync hook alone, every trigger and every order of commits: no local
\* mutation is made, so the queue stays empty and a pass ends with its fetch
NextHook ==
  \/ Render
  \/ \E p \in Passes : FetchOk(p)
  \/ \E p \in Passes : FetchFail(p)
  \/ OnlineEvent
  \/ OfflineEvent
  \/ TimerTick
  \/ ManualSync
  \/ \E c \in {"true", "false"} : HealthCheck(c)
  \/ CacheExpire

SpecHook == Init /\ [][NextHook]_vars

\* ------------------------------------- reconcileData on bounded snapshots
\* the items a snapshot can hold for one id; a timestamp is Date.now(), never 0,
\* so that lastModified 0 stands for the absent field alone
LocalItems(id) ==
  {Todo(id, "a", FALSE, cached, ts, IF cached = "true" THEN "pending" ELSE "synced") :
     cached \in {"true", "false", "absent"}, ts \in 0..MaxTs}

RemoteItems(id) == {ServerTodo(id, "a", FALSE, ts) : ts \in 0..MaxTs}

RECURSIVE Snapshots(_, _)
\* the snapshots of one side with unique ids among 1..n, in the order of their ids
Snapshots(n, side) ==
  IF n = 0 THEN {<<>>}
  ELSE LET shorter == Snapshots(n - 1, side)
           items == IF side = "local" THEN LocalItems(n) ELSE RemoteItems(n)
       IN shorter \cup {Append(s, t) : s \in shorter, t \in items}

ReconcileInit ==
  /\ pending = <<>>
  /\ conflicts = <<>>
  /\ lastSync = 0
  /\ storedTodos = <<>>
  /\ server = <<>>
  /\ nextId = 2
  /\ apiCache = [valid |-> FALSE, data |-> <<>>]
  /\ todos = <<>>
  /\ isSyncing = FALSE
  /\ hasRunInitialSync = FALSE
  /\ isServerConnected = "null"
  /\ rendered = [todos |-> <<>>, isSyncing |-> FALSE, hasRunInitialSync |-> FALSE,
                 isServerConnected |-> "null"]
  /\ online = FALSE
  /\ pass = [p \in Passes |-> IdlePass]
  /\ passCount = 0
  /\ opCount = 0
  /\ restarts = 0
  /\ acked = {}
  /\ late = {}
  /\ timer = NoTimer
  /\ rin \in [local : Snapshots(MaxId, "local"), remote : Snapshots(MaxId, "remote")]
  /\ rout = [NoOut EXCEPT !.phase = "in"]

\* performSync's step 2 on the snapshots (lines 198-210): reconcileData is
\* called and the new conflicts are appended to the stored ones
Reconcile ==
  /\ rout.phase = "in"
  /\ LET r == reconcileData(rin.local, rin.remote)
     IN /\ rout' = [rout EXCEPT !.phase = "out", !.reconciled = r.reconciled,
                                !.conflicts = r.conflicts]
        /\ conflicts' = IF Len(r.conflicts) > 0 THEN conflicts \o r.conflicts
                        ELSE conflicts
  /\ UNCHANGED <<pending, lastSync, storedTodos, remote, react, engine, rin, timer>>

\* the same step once more, on the same two snapshots; `first` keeps the merged
\* snapshot of the first run and the conflict list as the first run stored it
ReconcileAgain ==
  /\ rout.phase = "out"
  /\ LET r == reconcileData(rin.local, rin.remote)
     IN /\ rout' = [phase |-> "again", reconciled |-> r.reconciled,
                    conflicts |-> r.conflicts,
                    first |-> [reconciled |-> rout.reconciled, stored |-> conflicts]]
        /\ conflicts' = IF Len(r.conflicts) > 0 THEN conflicts \o r.conflicts
                        ELSE conflicts
  /\ UNCHANGED <<pending, lastSync, storedTodos, remote, react, engine, rin, timer>>

NextReconcile ==
  \/ Reconcile
  \/ ReconcileAgain

SpecReconcile == ReconcileInit /\ [][NextReconcile]_vars

\* ------------------------------------ the storage accessors on any content
\* what localStorage.getItem can return for a key: null (the key is missing or
\* was removed), the empty string, a text that is not JSON, or a JSON text;
\* `isArray` and `value` describe the value a JSON text stands for
Stored(kind, isArray, value) == [kind |-> kind, isArray |-> isArray, value |-> value]

\* JSON.stringify(list), as savePendingOperations and saveSyncConflicts store it
JSONstringify(list) == Stored("json", TRUE, list)

\* JSON.parse(text): the value of a JSON text, a SyntaxError for any other text
JSONparse(stored) ==
  IF stored.kind = "json"
  THEN [threw |-> FALSE, isArray |-> stored.isArray, value |-> stored.value]
  ELSE [threw |-> TRUE, isArray |-> FALSE, value |-> <<>>]

\* `stored ? ... : ...`: null and the empty string are falsy
Falsy(stored) == stored.kind \in {"null", "empty"}

\* return stored ? JSON.parse(stored) : []
getPendingOperations(stored) ==
  IF Falsy(stored) THEN [threw |-> FALSE, isArray |-> TRUE, value |-> <<>>]
  ELSE JSONparse(stored)

getSyncConflicts(stored) ==
  IF Falsy(stored) THEN [threw |-> FALSE, isArray |-> TRUE, value |-> <<>>]
  ELSE JSONparse(stored)

\* the queues and conflict lists a store can hold
StoredOps(id) ==
  {Op(id, type, entityId, Data("", "false"), retryCount) :
     type \in {"create", "update", "delete"}, entityId \in 1..MaxId,
     retryCount \in 0..(RetryCeiling - 1)}

\* a stored queue holds one entry for an entity and type at most
StoredQueues ==
  {<<>>} \cup {<<a>> : a \in StoredOps(1)}
         \cup {q \in {<<a, b>> : a \in StoredOps(1), b \in StoredOps(2)} :
                 ~(q[1].entityId = q[2].entityId /\ q[1].type = q[2].type)}

\* the payloads of a new operation
Payloads == {Data("", "true"), Data("a", "false")}

StoredConflictLists ==
  {<<>>} \cup {<<Conflict(l, r)>> : l \in LocalItems(1), r \in RemoteItems(1)}

\* the contents of one key
StoredValues(key) ==
  {Stored("null", FALSE, <<>>), Stored("empty", FALSE, <<>>),
   Stored("malformed", FALSE, <<>>), Stored("json", FALSE, <<>>)}
  \cup {JSONstringify(list) :
          list \in IF key = "pending" THEN StoredQueues ELSE StoredConflictLists}

NoArg == [type |-> "", entityId |-> 0, data |-> Data("", "absent")]

\* the outcome of one call: `threw`, it raised; `value`, the list it read or
\* built; `arg`, the arguments of addPendingOperation; `success` and `error`,
\* the SyncResult of the pass; `stored`, the content of the key afterwards
NoRead ==
  [phase |-> "in", threw |-> FALSE, isArray |-> FALSE, value |-> <<>>,
   arg |-> NoArg, success |-> FALSE, error |-> "",
   stored |-> Stored("null", FALSE, <<>>)]

\* an idle app over an empty remote; rin is the key and its stored content
StorageInit ==
  /\ pending = <<>>
  /\ conflicts = <<>>
  /\ lastSync = 0
  /\ storedTodos = <<>>
  /\ server = <<>>
  /\ nextId = 2
  /\ apiCache = [valid |-> FALSE, data |-> <<>>]
  /\ todos = <<>>
  /\ isSyncing = FALSE
  /\ hasRunInitialSync = FALSE
  /\ isServerConnected = "null"
  /\ rendered = [todos |-> <<>>, isSyncing |-> FALSE, hasRunInitialSync |-> FALSE,
                 isServerConnected |-> "null"]
  /\ online = FALSE
  /\ pass = [p \in Passes |-> IdlePass]
  /\ passCount = 0
  /\ opCount = 0
  /\ restarts = 0
  /\ acked = {}
  /\ late = {}
  /\ timer = NoTimer
  /\ \E key \in {"pending", "conflicts"} :
       rin \in [key : {key}, stored : StoredValues(key)]
  /\ rout = NoRead

\* a caller reads the queue
ReadPending ==
  /\ rout.phase = "in"
  /\ rin.key = "pending"
  /\ LET r == getPendingOperations(rin.stored)
     IN rout' = [NoRead EXCEPT !.phase = "read", !.threw = r.threw,
                               !.isArray = r.isArray, !.value = r.value,
                               !.stored = rin.stored]
  /\ UNCHANGED <<storage, remote, react, engine, rin, timer>>

\* a caller reads the conflict list
ReadConflicts ==
  /\ rout.phase = "in"
  /\ rin.key = "conflicts"
  /\ LET r == getSyncConflicts(rin.stored)
     IN rout' = [NoRead EXCEPT !.phase = "read", !.threw = r.threw,
                               !.isArray = r.isArray, !.value = r.value,
                               !.stored = rin.stored]
  /\ UNCHANGED <<storage, remote, react, engine, rin, timer>>

\* performSync([]) over the stored queue, when the fetch succeeds with an empty
\* collection and the store holds no operation to push: the read of line 213
\* is inside the try, `for ... of` throws on a value that is not a list, and
\* the end of the pass stores the filtered queue and the timestamp
SyncOverStored ==
  /\ rout.phase = "in"
  /\ rin.key = "pending"
  /\ LET r == getPendingOperations(rin.stored)
     IN /\ r.value = <<>>
        /\ IF r.threw \/ ~r.isArray
           THEN /\ rout' = [NoRead EXCEPT !.phase = "pass", !.threw = r.threw,
                                          !.isArray = r.isArray,
                                          !.error = "read", !.stored = rin.stored]
                /\ UNCHANGED lastSync
           ELSE /\ rout' = [NoRead EXCEPT !.phase = "pass", !.isArray = TRUE,
                                          !.success = TRUE,
                                          !.stored = JSONstringify(
                                             removeCompletedOperations(r.value, <<>>))]
                /\ lastSync' = Now
  /\ UNCHANGED <<pending, conflicts, storedTodos, remote, react, engine, rin, timer>>

\* addPendingOperation(type, entityId, data) over the stored queue: the read
\* is not guarded, and `.filter` throws on a value that is not a list
Enqueue ==
  /\ rout.phase = "in"
  /\ rin.key = "pending"
  /\ \E type \in {"create", "update", "delete"}, entityId \in 1..MaxId,
        data \in Payloads :
       LET r == getPendingOperations(rin.stored)
           arg == [type |-> type, entityId |-> entityId, data |-> data]
           saved == addPendingOperation(r.value, Len(r.value) + 1, type, entityId, data)
       IN IF r.threw \/ ~r.isArray
          THEN rout' = [NoRead EXCEPT !.phase = "added", !.threw = TRUE,
                                      !.arg = arg, !.stored = rin.stored]
          ELSE rout' = [NoRead EXCEPT !.phase = "added", !.isArray = TRUE,
                                      !.value = saved, !.arg = arg,
                                      !.stored = JSONstringify(saved)]
  /\ UNCHANGED <<storage, remote, react, engine, rin, timer>>

NextStorage ==
  \/ ReadPending
  \/ ReadConflicts
  \/ SyncOverStored
  \/ Enqueue

SpecStorage == StorageInit /\ [][NextStorage]_vars

\* --------------------- one request through ApiService.makeRequest, withRetry
\* what one fetch under withTimeout can come to: a response with its status, a
\* rejected fetch (network), or the timer of withTimeout winning the race
Response(status) == [kind |-> "response", status |-> status]
Failure(kind) == [kind |-> kind, status |-> 0]
Outcomes ==
  {Response(status) : status \in {200, 400, 404, 499, 500, 503}}
  \cup {Failure("network"), Failure("timeout")}

NoError == [api |-> FALSE, status |-> 0, kind |-> ""]

\* makeApiCall: an ApiError for a response that is not ok, the Error of fetch
\* or of withTimeout otherwise
makeApiCall(outcome) ==
  IF outcome.kind = "response"
  THEN IF outcome.status >= 200 /\ outcome.status <= 299
       THEN [threw |-> FALSE, error |-> NoError]
       ELSE [threw |-> TRUE,
             error |-> [api |-> TRUE, status |-> outcome.status, kind |-> "response"]]
  ELSE [threw |-> TRUE, error |-> [api |-> FALSE, status |-> 0, kind |-> outcome.kind]]

\* fault: every error is retried
shouldRetryAlways(error) == TRUE

\* the shouldRetry makeRequest passes to withRetry
shouldRetry(error) == IF error.api THEN error.status >= 500 ELSE TRUE

RECURSIVE Pow(_, _)
Pow(b, n) == IF n = 0 THEN 1 ELSE b * Pow(b, n - 1)

\* withRetry's locals: the loop variable `attempt`, lastError, the delay being
\* waited; `log` is the history of the outcomes of fn(), `settled` the promise
NoCall ==
  [phase |-> "call", attempt |-> 0, log |-> <<>>, settled |-> "pending",
   error |-> NoError, delay |-> 0]

\* an idle app; rin is the request, with nothing cached for it
RetryInit ==
  /\ pending = <<>>
  /\ conflicts = <<>>
  /\ lastSync = 0
  /\ storedTodos = <<>>
  /\ server = <<>>
  /\ nextId = 2
  /\ apiCache = [valid |-> FALSE, data |-> <<>>]
  /\ todos = <<>>
  /\ isSyncing = FALSE
  /\ hasRunInitialSync = FALSE
  /\ isServerConnected = "null"
  /\ rendered = [todos |-> <<>>, isSyncing |-> FALSE, hasRunInitialSync |-> FALSE,
                 isServerConnected |-> "null"]
  /\ online = TRUE
  /\ pass = [p \in Passes |-> IdlePass]
  /\ passCount = 0
  /\ opCount = 0
  /\ restarts = 0
  /\ acked = {}
  /\ late = {}
  /\ timer = NoTimer
  /\ rin \in [method : {"GET", "POST", "PUT", "DELETE"}]
  /\ rout = NoCall

\* one turn of withRetry's loop: fn() settles; on an error the loop throws it
\* when `attempt === maxRetries || !shouldRetry(lastError)`, else it sleeps
Attempt ==
  /\ rout.phase = "call"
  /\ \E outcome \in Outcomes :
       LET r == makeApiCall(outcome)
           log == Append(rout.log, outcome)
       IN IF ~r.threw
          THEN /\ rout' = [rout EXCEPT !.phase = "done", !.log = log,
                                       !.settled = "resolved"]
               /\ apiCache' = IF rin.method = "GET"
                              THEN [valid |-> TRUE, data |-> server]
                              ELSE [valid |-> FALSE, data |-> <<>>]
          ELSE IF rout.attempt = Retries \/ ~shouldRetry(r.error)
          THEN /\ rout' = [rout EXCEPT !.phase = "done", !.log = log,
                                       !.settled = "rejected", !.error = r.error]
               /\ UNCHANGED apiCache
          ELSE /\ rout' = [rout EXCEPT
                             !.phase = "wait", !.log = log, !.error = r.error,
                             !.delay = RetryDelay * Pow(BackoffMultiplier, rout.attempt)]
               /\ UNCHANGED apiCache
  /\ UNCHANGED <<storage, server, nextId, react, engine, rin, timer>>

\* the delay has passed: attempt++
Backoff ==
  /\ rout.phase = "wait"
  /\ rout' = [rout EXCEPT !.phase = "call", !.attempt = @ + 1, !.delay = 0]
  /\ UNCHANGED <<storage, remote, react, engine, rin, timer>>

NextRetry ==
  \/ Attempt
  \/ Backoff

SpecRetry == RetryInit /\ [][NextRetry]_vars

\* ================================================================ claims
OpIds(q) == {q[i].id : i \in 1..Len(q)}

\* the step in which pass p returns
Returns(p) == InFlight(p) /\ pass'[p].pc = "done"

\* C1: at every moment at most one sync pass is in flight.
C1_AtMostOnePassInFlight == Cardinality({p \in Passes : InFlight(p)}) <= 1

\* C2: the persisted queue holds at most one entry per (entityId, type) pair.
C2_OneEntryPerPair ==
  \A i, j \in 1..Len(pending) :
    (pending[i].entityId = pending[j].entityId /\ pending[i].type = pending[j].type)
      => i = j

\* two updates of the same item were queued, no pass has pushed anything, and
\* the second entry alone is in the queue
C2_Witness ==
  /\ opCount = 2
  /\ Len(pending) = 1
  /\ pending[1].id = 2
  /\ pending[1].type = "update"
  /\ \A p \in Passes : pass[p].drained = <<>>

\* C3: a pass whose fetch is rejected returns success = false with an error
\* message, no synced or failed operation and no conflict, pushes nothing, and
\* leaves the queue, the conflict list and the last-sync timestamp as they were.
C3_FetchFailureChangesNothing ==
  [][\A p \in Passes :
       (~pass[p].fetchError /\ pass'[p].fetchError) =>
         /\ pass'[p].pc = "done"
         /\ ~pass'[p].result.success
         /\ pass'[p].result.error # ""
         /\ pass'[p].result.syncedOperations = <<>>
         /\ pass'[p].result.failedOperations = <<>>
         /\ pass'[p].result.conflicts = <<>>
         /\ pass'[p].acks = {} /\ pass'[p].fails = {}
         /\ server' = server
         /\ pending' = pending
         /\ conflicts' = conflicts
         /\ lastSync' = lastSync]_vars

\* a pass has returned from a rejected fetch and pending operations and a
\* last-sync timestamp of an earlier pass are still stored
C3_Witness ==
  \E p \in Passes :
    /\ pass[p].pc = "done"
    /\ pass[p].fetchError
    /\ pending # <<>>
    /\ lastSync # 0

\* C4: an operation that is in the queue when a pass returns and that the pass
\* did not push (it was queued after the pass read the queue) is still in the
\* queue after the pass has returned.
C4_EnqueueDuringPassSurvives ==
  [][\A p \in Passes :
       Returns(p) =>
         \A i \in 1..Len(pending) :
           pending[i].id \notin OpIds(pass'[p].drained) =>
             \E j \in 1..Len(pending') : pending'[j] = pending[i]]_vars

\* C5: an operation whose write fails for the third time is in the pass's
\* failedOperations and is not in the queue once the pass has returned.
C5_ThirdFailureLeavesQueue ==
  [][\A p \in Passes :
       Returns(p) =>
         \A i \in 1..Len(pass'[p].drained) :
           LET op == pass'[p].drained[i]
           IN (op.id \in pass'[p].fails /\ op.retryCount + 1 >= RetryCeiling) =>
                /\ op.id \in OpIds(pass'[p].result.failedOperations)
                /\ op.id \notin OpIds(pending')]_vars

\* C6: an operation whose write fails with its counter still below the ceiling
\* is in the queue once the pass has returned, its counter one higher than the
\* pass read it.
C6_FailedBelowCeilingStaysQueued ==
  [][\A p \in Passes :
       Returns(p) =>
         \A i \in 1..Len(pass'[p].drained) :
           LET op == pass'[p].drained[i]
           IN (op.id \in pass'[p].fails /\ op.retryCount + 1 < RetryCeiling) =>
                \E j \in 1..Len(pending') :
                  /\ pending'[j].id = op.id
                  /\ pending'[j].retryCount = op.retryCount + 1]_vars

\* a returned pass had a failed write and the operation is queued with the
\* counter raised to 2
C6_Witness ==
  \E p \in Passes :
    /\ pass[p].pc = "done"
    /\ \E i \in 1..Len(pass[p].drained), j \in 1..Len(pending) :
         /\ pass[p].drained[i].id \in pass[p].fails
         /\ pass[p].drained[i].retryCount = 1
         /\ pending[j].id = pass[p].drained[i].id
         /\ pending[j].retryCount = 2

\* C7: when a pass returns, every operation whose write the remote acknowledged
\* to it is in syncedOperations and is not in the queue.
C7_AcknowledgedLeavesQueue ==
  [][\A p \in Passes :
       Returns(p) =>
         \A id \in pass'[p].acks :
           /\ id \in OpIds(pass'[p].result.syncedOperations)
           /\ id \notin OpIds(pending')]_vars

\* a returned pass had one write acknowledged and another one failed: the
\* first is gone from the queue, the second is still there
C7_Witness ==
  \E p \in Passes :
    /\ pass[p].pc = "done"
    /\ pass[p].acks # {}
    /\ pass[p].fails # {}
    /\ pass[p].acks \cap OpIds(pending) = {}
    /\ pass[p].fails \cap OpIds(pending) # {}

\* C8: the write of an operation that the remote has acknowledged is never
\* issued again.
C8_AcknowledgedNeverPushedAgain ==
  \A p \in Passes :
    pass[p].pc = "push" => pass[p].pendingOps[pass[p].idx].id \notin acked

\* the ids of rin that have a cached local item and a remote counterpart, as
\* the positions <<i, j>> of the two items
CachedPairs ==
  {ij \in (1..Len(rin.local)) \X (1..Len(rin.remote)) :
     /\ rin.local[ij[1]].id = rin.remote[ij[2]].id
     /\ Truthy(rin.local[ij[1]].cached)}

\* the local item is the newer one: both timestamps are there and L's is greater
LocalNewer(L, R) ==
  HasTs(L.lastModified) /\ HasTs(R.lastModified) /\ L.lastModified > R.lastModified

\* the merged item carries the data of `todo` (whatever its syncStatus)
Keeps(merged, todo) == WithStatus(merged, "synced") = WithStatus(todo, "synced")

ConflictsOf(id) == SelectSeq(rout.conflicts, LAMBDA c : c.entityId = id)

\* C9 (as stated): for every id that has a cached local item L and a remote
\* counterpart R, the side that the merged snapshot does not keep is held by a
\* conflict record of that reconciliation.
C9_UnkeptSideIsInConflictRecord ==
  rout.phase = "out" =>
    \A ij \in CachedPairs :
      LET L == rin.local[ij[1]]
          R == rin.remote[ij[2]]
          merged == rout.reconciled[ij[2]]
      IN /\ Keeps(merged, L) => \E c \in Range(rout.conflicts) : c.serverData = R
         /\ Keeps(merged, R) => \E c \in Range(rout.conflicts) : c.localData = L

\* C9 (amended): for every id that has a cached local item L and a remote
\* counterpart R, exactly one side is kept; the other side is held by a conflict
\* record when L is the newer one (both timestamps present, L's greater), and
\* in every other case it is discarded and no conflict record is made for the id.
C9_UnkeptSideInRecordOnlyWhenLocalNewer ==
  rout.phase = "out" =>
    \A ij \in CachedPairs :
      LET L == rin.local[ij[1]]
          R == rin.remote[ij[2]]
          merged == rout.reconciled[ij[2]]
      IN IF LocalNewer(L, R)
         THEN /\ Keeps(merged, L)
              /\ \E c \in Range(rout.conflicts) : c.serverData = R
         ELSE /\ Keeps(merged, L) \/ Keeps(merged, R)
              /\ ConflictsOf(R.id) = <<>>
              /\ \A c \in Range(rout.conflicts) : c.localData # L /\ c.serverData # R

\* one reconciliation met the three cases: a newer cached item (kept, the
\* remote one in a record), an older one (dropped for the remote one) and one
\* without a timestamp (kept, the remote one dropped)
C9_Witness ==
  /\ rout.phase = "out"
  /\ \E ij \in CachedPairs :
       /\ LocalNewer(rin.local[ij[1]], rin.remote[ij[2]])
       /\ \E c \in Range(rout.conflicts) : c.serverData = rin.remote[ij[2]]
  /\ \E ij \in CachedPairs :
       /\ ~LocalNewer(rin.local[ij[1]], rin.remote[ij[2]])
       /\ ConflictsOf(rin.remote[ij[2]].id) = <<>>
       /\ \/ Keeps(rout.reconciled[ij[2]], rin.remote[ij[2]])
          \/ /\ ~HasTs(rin.local[ij[1]].lastModified)
             /\ Keeps(rout.reconciled[ij[2]], rin.local[ij[1]])

\* C10: a cached local item L and the remote item R of the same id both carry
\* lastModified and L's is strictly greater: the merged snapshot holds L with
\* syncStatus 'conflict' and there is exactly one conflict record for the id,
\* with L as its local data and R as its remote data.
C10_NewerLocalKeptAsConflict ==
  rout.phase = "out" =>
    \A ij \in CachedPairs :
      LET L == rin.local[ij[1]]
          R == rin.remote[ij[2]]
      IN LocalNewer(L, R) =>
           /\ rout.reconciled[ij[2]] = WithStatus(L, "conflict")
           /\ ConflictsOf(R.id) = <<Conflict(L, R)>>

\* two ids are in conflict in one reconciliation, each with its own record
C10_Witness ==
  /\ rout.phase = "out"
  /\ Cardinality({ij \in CachedPairs : LocalNewer(rin.local[ij[1]], rin.remote[ij[2]])}) = 2
  /\ Len(rout.conflicts) = 2
  /\ \E k \in 1..Len(rout.reconciled) : rout.reconciled[k].syncStatus = "conflict"

\* the ids of rin that have a local item that is not cached (cached false or
\* absent) and a remote counterpart, as the positions <<i, j>> of the two items
UncachedPairs ==
  {ij \in (1..Len(rin.local)) \X (1..Len(rin.remote)) :
     /\ rin.local[ij[1]].id = rin.remote[ij[2]].id
     /\ ~Truthy(rin.local[ij[1]].cached)}

\* both items carry lastModified
BothTs(L, R) == HasTs(L.lastModified) /\ HasTs(R.lastModified)

Reconciled == rout.phase = "out"

\* C11: a cached local item L and the remote item R of the same id both carry
\* lastModified and L's is less than or equal to R's: the merged snapshot holds
\* R with syncStatus 'synced' and there is no conflict record for the id.
C11_OlderOrEqualLocalGivesWay ==
  Reconciled =>
    \A ij \in CachedPairs :
      LET L == rin.local[ij[1]]
          R == rin.remote[ij[2]]
      IN (BothTs(L, R) /\ L.lastModified <= R.lastModified) =>
           /\ rout.reconciled[ij[2]] = WithStatus(R, "synced")
           /\ ConflictsOf(R.id) = <<>>

\* one reconciliation met a tie and a strictly older cached item
C11_Witness ==
  /\ Reconciled
  /\ \E ij \in CachedPairs :
       /\ rin.local[ij[1]].lastModified = rin.remote[ij[2]].lastModified
       /\ HasTs(rin.local[ij[1]].lastModified)
       /\ rout.reconciled[ij[2]].syncStatus = "synced"
  /\ \E ij \in CachedPairs :
       /\ HasTs(rin.local[ij[1]].lastModified)
       /\ rin.local[ij[1]].lastModified < rin.remote[ij[2]].lastModified
       /\ rout.reconciled[ij[2]].syncStatus = "synced"

\* C12: a remote item with no local item of the same id is in the merged
\* snapshot with its data unchanged and syncStatus 'synced', and there is no
\* conflict record for it.
C12_RemoteOnlyAdopted ==
  Reconciled =>
    \A j \in 1..Len(rin.remote) :
      rin.remote[j].id \notin Ids(rin.local) =>
        /\ rout.reconciled[j] = WithStatus(rin.remote[j], "synced")
        /\ Len(SelectSeq(rout.reconciled, LAMBDA t : t.id = rin.remote[j].id)) = 1
        /\ ConflictsOf(rin.remote[j].id) = <<>>

\* a remote-only item was merged next to an item that is in conflict
C12_Witness ==
  /\ Reconciled
  /\ rout.conflicts # <<>>
  /\ \E j \in 1..Len(rin.remote) :
       /\ rin.remote[j].id \notin Ids(rin.local)
       /\ rout.reconciled[j].syncStatus = "synced"

\* C13: a local item that is not cached and has a remote counterpart is
\* replaced by the remote item with syncStatus 'synced', whatever the timestamps.
C13_UncachedLocalReplaced ==
  Reconciled =>
    \A ij \in UncachedPairs :
      /\ rout.reconciled[ij[2]] = WithStatus(rin.remote[ij[2]], "synced")
      /\ \A k \in 1..Len(rout.reconciled) :
           rout.reconciled[k].id = rin.remote[ij[2]].id => k = ij[2]

\* an uncached local item newer than its remote counterpart was replaced, with
\* cached false and with cached absent
C13_Witness ==
  /\ Reconciled
  /\ \E ij \in UncachedPairs :
       /\ rin.local[ij[1]].cached = "false"
       /\ LocalNewer(rin.local[ij[1]], rin.remote[ij[2]])
       /\ Keeps(rout.reconciled[ij[2]], rin.remote[ij[2]])
  /\ \E ij \in UncachedPairs :
       /\ rin.local[ij[1]].cached = "absent"
       /\ LocalNewer(rin.local[ij[1]], rin.remote[ij[2]])
       /\ Keeps(rout.reconciled[ij[2]], rin.remote[ij[2]])

\* C14: a cached local item L has a remote counterpart R and L or R has no
\* lastModified: the merged snapshot holds L with syncStatus 'pending' and
\* there is no conflict record for the id.
C14_NoTimestampKeepsLocal ==
  Reconciled =>
    \A ij \in CachedPairs :
      LET L == rin.local[ij[1]]
          R == rin.remote[ij[2]]
      IN ~BothTs(L, R) =>
           /\ rout.reconciled[ij[2]] = WithStatus(L, "pending")
           /\ ConflictsOf(R.id) = <<>>

\* one reconciliation kept a cached item that has no timestamp against a
\* remote one that has, and one that has a timestamp against one that has none
C14_Witness ==
  /\ Reconciled
  /\ \E ij \in CachedPairs :
       /\ ~HasTs(rin.local[ij[1]].lastModified)
       /\ HasTs(rin.remote[ij[2]].lastModified)
       /\ rout.reconciled[ij[2]].syncStatus = "pending"
  /\ \E ij \in CachedPairs :
       /\ HasTs(rin.local[ij[1]].lastModified)
       /\ ~HasTs(rin.remote[ij[2]].lastModified)
       /\ rout.reconciled[ij[2]].syncStatus = "pending"

\* the local items whose id the remote snapshot does not hold, in their order
LocalOnly == SelectSeq(rin.local, LAMBDA t : t.id \notin Ids(rin.remote))

\* C15: the local items whose id is absent from the remote snapshot are in the
\* merged snapshot with their local data and syncStatus 'pending', after all
\* the items that come from the remote snapshot.
C15_LocalOnlyRetainedLast ==
  Reconciled =>
    /\ Len(rout.reconciled) = Len(rin.remote) + Len(LocalOnly)
    /\ \A k \in 1..Len(LocalOnly) :
         rout.reconciled[Len(rin.remote) + k] = WithStatus(LocalOnly[k], "pending")
    /\ \A j \in 1..Len(rin.remote) : rout.reconciled[j].id = rin.remote[j].id

\* a local-only item that is not cached was retained behind a remote item
C15_Witness ==
  /\ Reconciled
  /\ Len(rin.remote) > 0
  /\ Len(LocalOnly) > 0
  /\ ~Truthy(LocalOnly[1].cached)
  /\ rout.reconciled[Len(rout.reconciled)].syncStatus = "pending"

\* no item of the list is marked 'synced' while it is cached
SyncedAreUncached(list) ==
  \A i \in 1..Len(list) : list[i].syncStatus = "synced" => ~Truthy(list[i].cached)

\* C16: every item of the reconciled output with syncStatus 'synced' is not
\* cached: in the merged snapshot a successful pass returns and in the list
\* that performActualSync makes of it for the caller.
C16_SyncedItemsAreNotCached ==
  [][\A p \in Passes :
       (Returns(p) /\ pass'[p].result.success) =>
         /\ SyncedAreUncached(pass'[p].result.fetchedData)
         /\ SyncedAreUncached(todos')]_vars

\* C17: a second reconciliation of the same local and remote snapshots yields
\* the merged snapshot of the first one and adds no conflict record: the stored
\* conflict list is as the first run left it.
C17_SecondRunAddsNothing ==
  rout.phase = "again" =>
    /\ rout.reconciled = rout.first.reconciled
    /\ conflicts = rout.first.stored

\* list a is the beginning of list b
IsPrefix(a, b) == Len(a) <= Len(b) /\ \A i \in 1..Len(a) : b[i] = a[i]

\* pass p gets its remote snapshot and goes on (the fetch is not rejected)
Fetched(p) == pass[p].pc = "fetch" /\ pass'[p].pc # "fetch" /\ ~pass'[p].fetchError

\* C18: a pass never removes or rewrites a stored conflict record: the list
\* stored before a step of a pass is a prefix of the list stored after it, the
\* step that reconciles appends exactly the pass's new records, and a step that
\* removes a record is clearSyncData.
C18_ConflictsOnlyAppended ==
  [][/\ \A p \in Passes :
          pass'[p] # pass[p] => IsPrefix(conflicts, conflicts')
     /\ \A p \in Passes :
          Fetched(p) => conflicts' = conflicts \o pass'[p].result.conflicts
     /\ ~IsPrefix(conflicts, conflicts') =>
          (conflicts' = <<>> /\ pending' = <<>> /\ lastSync' = 0 /\ pass' = pass)]_vars

\* a pass has appended a record to the one an earlier pass stored
C18_Witness ==
  /\ Len(conflicts) >= 2
  /\ \E p \in Passes :
       /\ pass[p].pc = "done"
       /\ Len(pass[p].result.conflicts) = 1

\* how many times id is in the list of ids
Count(ids, id) == Cardinality({i \in 1..Len(ids) : ids[i] = id})

\* C19: when a pass whose fetch succeeded returns, every operation that was in
\* the queue when the drain started has been pushed exactly once, whatever the
\* outcomes of the pushes before it, and is in exactly one of syncedOperations
\* and failedOperations.
C19_EveryDrainedOperationPushedOnce ==
  [][\A p \in Passes :
       (Returns(p) /\ ~pass'[p].fetchError) =>
         LET r == pass'[p].result
             reported == [i \in 1..Len(r.syncedOperations) |-> r.syncedOperations[i].id]
                           \o [i \in 1..Len(r.failedOperations) |-> r.failedOperations[i].id]
         IN /\ Len(pass'[p].sent) = Len(pass'[p].drained)
            /\ \A i \in 1..Len(pass'[p].drained) :
                 LET id == pass'[p].drained[i].id
                 IN /\ Count(pass'[p].sent, id) = 1
                    /\ Count(reported, id) = 1
                    /\ id \in OpIds(r.syncedOperations) <=> id \in pass'[p].acks
                    /\ id \in OpIds(r.failedOperations) <=> id \in pass'[p].fails]_vars

\* a returned pass drained two operations: the first push failed, the second
\* one was acknowledged
C19_Witness ==
  \E p \in Passes :
    /\ pass[p].pc = "done"
    /\ Len(pass[p].drained) = 2
    /\ pass[p].drained[1].id \in pass[p].fails
    /\ pass[p].drained[2].id \in pass[p].acks
    /\ Len(pass[p].result.syncedOperations) = 1
    /\ Len(pass[p].result.failedOperations) = 1

\* the write requests of pass p that are on their way or awaiting their answer
Outstanding(p) ==
  (IF pass[p].pc = "push" THEN 1 ELSE 0)
    + Cardinality({r \in late : r.n = pass[p].n})

\* C20: within one pass the pushes are sequential and in queue order: the
\* pushes that have returned are those of the first operations of the drained
\* queue, in its order, the push awaited is that of the next operation, and at
\* most one write request of the pass is outstanding.
C20_PushesSequentialInQueueOrder ==
  \A p \in Passes :
    /\ Len(pass[p].sent) <= Len(pass[p].drained)
    /\ \A i \in 1..Len(pass[p].sent) : pass[p].sent[i] = pass[p].drained[i].id
    /\ pass[p].pc = "push" =>
         /\ pass[p].idx = Len(pass[p].sent) + 1
         /\ pass[p].idx <= Len(pass[p].drained)
         /\ pass[p].pendingOps[pass[p].idx].id = pass[p].drained[pass[p].idx].id
    /\ InFlight(p) => Outstanding(p) <= 1

\* C21 -- a pass that has started keeps the in-flight flag set until it returns,
\* and the step in which it returns clears the flag
C21_FlagHeldUntilPassReturns ==
  [][\A p \in Passes :
       /\ Returns(p) => ~isSyncing'
       /\ InFlight(p)' => isSyncing']_vars

\* the step in which pass p, whose queue was the one create operation of a
\* local-only cached item, gets that write acknowledged and returns; nothing
\* was queued while the pass ran
PushesOnlyCreate(p) ==
  /\ pass[p].pc = "push"
  /\ Len(pass[p].pendingOps) = 1
  /\ pass[p].pendingOps[1].type = "create"
  /\ pending = pass[p].pendingOps
  /\ \E i \in 1..Len(pass[p].result.fetchedData) :
       LET t == pass[p].result.fetchedData[i]
       IN t.id = pass[p].pendingOps[1].entityId /\ Truthy(t.cached)
          /\ t.syncStatus = "pending"
  /\ pass[p].pendingOps[1].entityId \notin Ids(server)
  /\ Returns(p)
  /\ pass'[p].acks = {pass[p].pendingOps[1].id}

C23_ReadsTolerateBadStorage ==
  rin.stored.kind \in {"null", "empty", "malformed"} =>
    /\ rout.phase = "read" => ~rout.threw /\ rout.isArray /\ rout.value = <<>>
    /\ rout.phase = "pass" => rout.success

\* a step of useTodos that changes the list without a write reaching the remote
LocalMutation == todos' # todos /\ pass' = pass /\ server' = server

Queued(q, id) == \E i \in 1..Len(q) : q[i].entityId = id

\* C24 -- a local mutation made offline, or whose remote write failed, leaves a
\* queued operation for every item it modified (cached, 'pending') or removed
C24_LocalMutationIsQueued ==
  [][LocalMutation =>
       /\ \A i \in 1..Len(todos') :
            (/\ todos'[i] \notin Range(todos)
             /\ Truthy(todos'[i].cached)
             /\ todos'[i].syncStatus = "pending") => Queued(pending', todos'[i].id)
       /\ \A id \in Ids(todos) \ Ids(todos') : Queued(pending', id)]_vars

\* the entries of queue q for the entity and type of the call
EntriesFor(q, arg) ==
  {i \in 1..Len(q) : q[i].entityId = arg.entityId /\ q[i].type = arg.type}

\* C25 -- addPendingOperation on a queue that holds an entry for the entity and
\* type leaves one entry for the pair: the new one, with the new payload and
\* retry counter 0, at the end; the earlier entry is gone and the entries of
\* the other pairs keep their order
C25_EnqueueReplacesEntryOfPair ==
  (/\ rout.phase = "added"
   /\ rin.stored.kind = "json" /\ rin.stored.isArray
   /\ EntriesFor(rin.stored.value, rout.arg) # {}) =>
    LET old == rin.stored.value
        new == rout.value
    IN /\ ~rout.threw
       /\ EntriesFor(new, rout.arg) = {Len(new)}
       /\ new[Len(new)].data = rout.arg.data
       /\ new[Len(new)].retryCount = 0
       /\ new[Len(new)].id \notin OpIds(old)
       /\ \A i \in EntriesFor(old, rout.arg) : old[i].id \notin OpIds(new)
       /\ SubSeq(new, 1, Len(new) - 1)
            = SelectSeq(old, LAMBDA op : ~(op.entityId = rout.arg.entityId
                                           /\ op.type = rout.arg.type))
       /\ rout.stored = JSONstringify(new)

C25_Witness ==
  /\ rout.phase = "added"
  /\ Len(rin.stored.value) = 2
  /\ EntriesFor(rin.stored.value, rout.arg) = {1}
  /\ rin.stored.value[1].retryCount = 2
  /\ Len(rout.value) = 2
  /\ rout.value[1] = rin.stored.value[2]
  /\ rout.value[2].retryCount = 0
  /\ rout.value[2].data # rin.stored.value[1].data

\* C26 -- the snapshot a pass reconciles against is the remote collection as it
\* is when the pass fetches, never an answer cached before a later acknowledged
\* write: a pass that starts on a cache hit finds the cached answer equal to
\* the remote collection
C26_PassReconcilesCurrentRemote ==
  [][\A p \in Passes :
       (pass[p].pc # "fetch" /\ pass'[p].pc = "fetch" /\ pass'[p].fromCache) =>
         pass'[p].cachedData = server]_vars

Is4xx(outcome) ==
  outcome.kind = "response" /\ outcome.status >= 400 /\ outcome.status <= 499

Retryable(outcome) ==
  \/ outcome.kind \in {"network", "timeout"}
  \/ outcome.kind = "response" /\ outcome.status >= 500

\* the number of calls of fn() withRetry's loop allows
AttemptLimit == Retries + 1

\* C27 -- a 4xx answer ends the request at once, rejected with that error and
\* never followed by another attempt (a request whose first answer is 4xx is
\* attempted once); after a 5xx answer, a network error or a timeout the
\* request goes on until an attempt succeeds or the attempt limit is reached
C27_RetryOnlyServerAndTransportErrors ==
  /\ \A i \in 1..Len(rout.log) :
       Is4xx(rout.log[i]) =>
         /\ i = Len(rout.log)
         /\ rout.phase = "done" /\ rout.settled = "rejected"
         /\ rout.error.api /\ rout.error.status = rout.log[i].status
  /\ \A i \in 1..Len(rout.log) :
       (Retryable(rout.log[i]) /\ i = Len(rout.log) /\ rout.phase = "done") =>
         (rout.settled = "rejected" /\ i = AttemptLimit)
  /\ rout.settled = "resolved" =>
       (rout.phase = "done" /\ makeApiCall(rout.log[Len(rout.log)]).threw = FALSE)
  /\ Len(rout.log) <= AttemptLimit

C27_Witness ==
  /\ rout.phase = "done"
  /\ Len(rout.log) = 3
  /\ rout.log[1] = Response(503)
  /\ rout.log[2] = Failure("timeout")
  /\ rout.log[3] = Response(404)
  /\ rout.settled = "rejected"

\* C28 -- with ApiService's settings a request that keeps failing with a
\* retryable error is attempted 3 times at most, and is then rejected with the
\* last error
C28_AtMostThreeAttempts ==
  /\ Len(rout.log) <= 3
  /\ (rout.phase = "done" /\ rout.settled = "rejected") =>
       rout.error = makeApiCall(rout.log[Len(rout.log)]).error

\* C29 -- every pass returns a SyncResult: after a rejected fetch one with
\* success = false, an error and nothing pushed; after a fetch that succeeded
\* one with success = true whatever the pushes did, the operations whose write
\* failed listed in failedOperations and the others in syncedOperations
C29_EveryPassReturnsAResult ==
  [][\A p \in Passes :
       Returns(p) =>
         LET r == pass'[p].result
         IN /\ pass'[p].fetchError =>
                 /\ ~r.success /\ r.error # ""
                 /\ r.syncedOperations = <<>> /\ r.failedOperations = <<>>
            /\ ~pass'[p].fetchError =>
                 /\ r.success /\ r.error = ""
                 /\ OpIds(r.failedOperations) = pass'[p].fails
                 /\ OpIds(r.syncedOperations) = pass'[p].acks
                 /\ Len(r.failedOperations) + Len(r.syncedOperations)
                      = Len(pass'[p].drained)]_vars

C29_Witness ==
  \E p \in Passes :
    /\ pass[p].pc = "done"
    /\ pass[p].result.success
    /\ Len(pass[p].drained) = 2
    /\ Len(pass[p].result.failedOperations) = 2
    /\ pass[p].acks = {}

\* C30 -- the startup trigger of a mount fires once, when the browser is online
\* and the health check has succeeded, and the step in which it fires starts a
\* pass; once it has fired no later change makes it fire again
C30_OneStartupPassPerMount ==
  [][/\ (~hasRunInitialSync /\ hasRunInitialSync') =>
          /\ online /\ isServerConnected = "true"
          /\ passCount' = passCount + 1
     /\ hasRunInitialSync => hasRunInitialSync']_vars

\* C31 -- every transition from offline to online calls the guarded entry
\* point, and the call starts a pass unless a pass is in flight, in which case
\* it changes nothing
C31_OnlineTransitionStartsPassUnlessInFlight ==
  [][(~online /\ online') =>
       IF \E p \in Passes : InFlight(p)
       THEN pass' = pass /\ passCount' = passCount
       ELSE passCount' = passCount + 1
            /\ \E p \in Passes : ~InFlight(p) /\ InFlight(p)']_vars

\* C32 -- while the app is mounted and online, from every state a call of the
\* guarded entry point by the interval eventually occurs, whatever else happens
\* in between (stated for the states in which a pass can still be started)
C32_TimerKeepsCalling ==
  (online /\ passCount < MaxPasses) ~> timer.called

\* C33 -- when a pass returns successfully, the app's in-memory list becomes the
\* merged snapshot of its SyncResult, every item with the syncStatus
\* reconcileData gave it
C33_ViewHoldsReconciledStatuses ==
  [][\A p \in Passes :
       (Returns(p) /\ pass'[p].result.success) =>
         todos' = pass'[p].result.fetchedData]_vars

\* the local items of the merged snapshot of pass p: the pass's copy of them
KeptLocal(p) ==
  {t \in Range(pass[p].result.fetchedData) : Truthy(t.cached)}

\* C34 -- a local mutation of the list made while a pass is in flight is still
\* in the in-memory list when the pass has returned: an item added after the
\* pass took its copy of the list is still there, an item toggled since keeps
\* its new completion flag, and an item cleared since does not come back
C34_MutationDuringPassIsKept ==
  [][\A p \in Passes :
       (Returns(p) /\ pass'[p].result.success) =>
         /\ \A i \in 1..Len(todos) :
              todos[i].id \notin Ids(pass[p].result.fetchedData)
                => todos[i].id \in Ids(todos')
         /\ \A i \in 1..Len(todos) : \A t \in KeptLocal(p) :
              (t.id = todos[i].id /\ t.lastModified # todos[i].lastModified)
                => \E j \in 1..Len(todos') :
                     /\ todos'[j].id = t.id
                     /\ todos'[j].completed = todos[i].completed
         /\ \A t \in KeptLocal(p) :
              t.id \notin Ids(todos) => t.id \notin Ids(todos')]_vars

\* what the two sides show of a list: ids, titles and completion flags
Shown(list) == [i \in 1..Len(list) |-> <<list[i].id, list[i].title, list[i].completed>>]

Converged ==
  /\ Len(todos) = Len(server)
  /\ Range(Shown(todos)) = Range(Shown(server))
  /\ \A i \in 1..Len(todos) :
       ~Truthy(todos[i].cached) /\ todos[i].syncStatus # "pending"

\* the step in which pass p returns successfully having found nothing to push
\* and having changed neither the list nor the remote: with no local mutation
\* every later pass reads the same list, queue and remote and repeats this step
RepeatsItself(p) ==
  /\ Returns(p) /\ pass'[p].result.success
  /\ pass'[p].drained = <<>> /\ pending' = <<>>
  /\ todos' = todos /\ server' = server

\* C35 -- once the create of an item made offline has been acknowledged and no
\* further local mutation occurs, finitely many successful passes leave the
\* local list equal to the remote collection (ids, titles, completion flags),
\* one item for each, none cached or pending: a pass after the acknowledgement
\* that repeats itself has therefore reached that state
C35_OfflineCreateConverges ==
  [][\A p \in Passes :
       (acked # {} /\ RepeatsItself(p)) => Converged']_vars

\* C36 -- every mutation in the persisted queue has a retry counter between 0
\* and 2: a counter of 3 or more is never written to the queue
C36_StoredRetryCountBelowCeiling ==
  \A i \in 1..Len(pending) : pending[i].retryCount \in 0..(RetryCeiling - 1)

\* an operation that failed in two passes is in the queue with counter 2, and a
\* pass has just failed to push it a third time
C36_Witness ==
  \E p \in Passes : \E i \in 1..Len(pass[p].drained) :
    /\ pass[p].pc = "done"
    /\ pass[p].drained[i].retryCount = RetryCeiling - 1
    /\ pass[p].drained[i].id \in pass[p].fails

\* the ids of a snapshot are pairwise different
DistinctIds(list) == Cardinality(Ids(list)) = Len(list)

\* C37 -- for local and remote snapshots that each have unique ids, the merged
\* snapshot has unique ids and its id set is exactly the union of the local
\* and the remote id set
C37_MergedIdsAreTheUnion ==
  (rout.phase # "in" /\ DistinctIds(rin.local) /\ DistinctIds(rin.remote)) =>
    /\ DistinctIds(rout.reconciled)
    /\ Ids(rout.reconciled) = Ids(rin.local) \cup Ids(rin.remote)

\* merged: an item held by both sides and an item only the local side holds
C37_Witness ==
  /\ rout.phase = "out"
  /\ Ids(rin.local) \cap Ids(rin.remote) # {}
  /\ Ids(rin.local) \ Ids(rin.remote) # {}
  /\ Len(rout.reconciled) = Cardinality(Ids(rin.local) \cup Ids(rin.remote))

\* the (entityId, type) pairs of the entries addPendingOperation adds in a
\* step: the entries whose id was generated in the step
PairsAdded ==
  {<<pending'[i].entityId, pending'[i].type>> :
     i \in {j \in 1..Len(pending') : pending'[j].id > opCount}}

\* the entries of a queue for the pairs outside `pairs`, in queue order
EntriesOutside(q, pairs) ==
  SelectSeq(q, LAMBDA op : <<op.entityId, op.type>> \notin pairs)

Completes(k) ==
  /\ k \in 1..Len(rout.runs)
  /\ rout.runs[k].pc = "await" /\ rout'.runs[k].pc = "done"

\* C39 -- when executions of useAsync's execute overlap, only the most recently
\* started one may update the state: once a later-started execution exists,
\* the completion (success or failure) of an earlier-started one changes
\* neither data nor error nor loading, whatever the order of completion
C39_OnlyLatestExecutionUpdates ==
  [][\A k \in 1..MaxExecutions :
       (Completes(k) /\ Len(rout.runs) > k) =>
         /\ rout'.state.data = rout.state.data
         /\ rout'.state.error = rout.state.error
         /\ rout'.state.loading = rout.state.loading]_vars

\* three overlapping executions: the latest resolved first and wrote the state,
\* then the first failed and the second resolved
C39_Witness ==
  /\ Len(rout.settled) = 3
  /\ rout.settled[1] = [execution |-> 3, outcome |-> "resolved"]
  /\ rout.settled[2] = [execution |-> 1, outcome |-> "rejected"]
  /\ rout.settled[3] = [execution |-> 2, outcome |-> "resolved"]
  /\ rout.state.data # "null" /\ rout.state.error = "null" /\ ~rout.state.loading

====
